---- MODULE Spec2Model ----
(***************************************************************************)
(* Model of the portfolio rebalancing order calculator of alpaca-cli:      *)
(* validate_not_nan and calculate_rebalancing_orders                       *)
(* (src/src/alpaca_cli/cli/utils.py), under three specifications: Spec,    *)
(* one call; SpecConc, two concurrent calls; SpecCmd, the rebalance        *)
(* command that calls it (src/src/alpaca_cli/cli/groups/trading/orders.py). *)
(*                                                                         *)
(* Numbers.  A Python value is a record [t, v]: t = "num" with the value   *)
(* v, t = "None", or t = "NaN" (float('nan')).  Decimal arithmetic is      *)
(* fixed point: quantities are whole numbers of the smallest quantity the  *)
(* decimal context resolves, prices whole price units, and a trade value   *)
(* is quantity * price.  A target weight is v / WeightDen, so that         *)
(* equity * weight / price = equity * v / (WeightDen * price), rounded     *)
(* half-even to the quantity unit as the decimal context rounds a          *)
(* quotient.  Sums, differences and products are exact, as they are in     *)
(* the decimal context for operands of few digits.                         *)
(***************************************************************************)
EXTENDS Integers, Sequences, FiniteSets, TLC

VARIABLES
    current_equity,     \* argument: a Python value
    current_positions,  \* argument: dict symbol -> Python value
    target_weights,     \* argument: dict symbol -> Python value
    current_prices,     \* argument: dict symbol -> Python value
    allow_short,        \* argument: bool
    pc,                 \* "start" | "loop" | "returned" | "raised"
    equity_d,           \* local: Decimal(str(current_equity))
    all_symbols,        \* local: the symbols the for loop has still to visit
    symbol,             \* local: the loop variable ("" before the first iteration)
    orders,             \* local: the list of orders built so far
    result,             \* what the caller receives: nothing yet, a list, or an error
    calls,              \* concurrent calls: call id -> its arguments and locals
    \* the rebalance command (cli/groups/trading/orders.py)
    cmd_pc,             \* the statement the command is at ("none": no command)
    weights_file,       \* what json.load(target_weights_path) gives
    dry_run,            \* option --dry-run/--execute
    force,              \* option --force
    yes,                \* option --yes
    order_type,         \* option --order-type
    clock,              \* client.get_clock(): "unchecked", "open", "closed", "error"
    fetched,            \* the calls made to the trading and data clients
    sorted_orders,      \* local: sell_orders + buy_orders
    confirmed,          \* click.confirm: "unasked", "yes", "no"
    submitted,          \* the requests passed to submit_order, in order
    message             \* the last thing logged or printed

\* the variables of the rebalance command
command == << cmd_pc, weights_file, dry_run, force, yes, order_type, clock,
              fetched, sorted_orders, confirmed, submitted, message >>

vars == << current_equity, current_positions, target_weights, current_prices,
           allow_short, pc, equity_d, all_symbols, symbol, orders, result,
           calls, command >>

args == << current_equity, current_positions, target_weights, current_prices,
           allow_short >>

\* what a call of calculate_rebalancing_orders does not touch
outside == << calls, command >>

----------------------------------------------------------------------------
(* Bounds of the checked inputs *)

MaxQty == 3
MaxPrice == 2
MaxWeight == 2
MaxEquity == 5

(* Weights are halves: v = 2 is a weight of 1.0; equity in value units *)
WeightDen == 2

(* core/constants.py is not among the sources; values in model units *)
MIN_QTY_THRESHOLD == 2
MIN_TRADE_VALUE_THRESHOLD == 4

----------------------------------------------------------------------------
(* Python values *)

Num(n) == [t |-> "num", v |-> n]
None == [t |-> "None", v |-> 0]
NaN == [t |-> "NaN", v |-> 0]

IsNum(x) == x.t = "num"

\* mutant: a missing key reads as None, whatever the default
DictGet_NoDefault(d, k, default) == IF k \in DOMAIN d THEN d[k] ELSE None

\* dict.get(key, default)
DictGet(d, k, default) == IF k \in DOMAIN d THEN d[k] ELSE default

Abs(n) == IF n < 0 THEN -n ELSE n

\* Decimal quotient n / d (d # 0) rounded half-even to the unit
DecimalDivide(n, d) ==
    LET nn == IF d < 0 THEN -n ELSE n
        dd == IF d < 0 THEN -d ELSE d
        q == nn \div dd
        r == nn % dd
    IN  IF 2 * r < dd THEN q
        ELSE IF 2 * r > dd THEN q + 1
        ELSE IF q % 2 = 0 THEN q ELSE q + 1

\* Decimal(str(x)): a number converts, 'nan' converts to the Decimal NaN,
\* 'None' raises InvalidOperation
ToDecimal(x) ==
    IF x.t = "num" THEN [t |-> "dec", v |-> x.v]
    ELSE IF x.t = "NaN" THEN [t |-> "decNaN", v |-> 0]
    ELSE [t |-> "InvalidOperation", v |-> 0]

----------------------------------------------------------------------------
(* Errors and results *)

NoError == [raised |-> FALSE, msg |-> "", name |-> "", symbol |-> ""]
ValueError(msg, name, sym) ==
    [raised |-> TRUE, msg |-> msg, name |-> name, symbol |-> sym]

\* the decimal module's exception for a division by zero
DivisionByZero(sym) == ValueError("DivisionByZero", "", sym)

\* mutant: only None is rejected
validate_not_nan_NoneOnly(name, sym, value) ==
    IF value.t = "None" THEN ValueError("is None (Missing)", name, sym)
    ELSE NoError

\* validate_not_nan(name, value): the ValueError it raises, or NoError
validate_not_nan(name, sym, value) ==
    IF value.t = "None" THEN ValueError("is None (Missing)", name, sym)
    ELSE IF value.t = "NaN" THEN ValueError("is NaN", name, sym)
    ELSE NoError

Pending == [kind |-> "pending", orders |-> << >>, error |-> NoError]
Returned(os) == [kind |-> "list", orders |-> os, error |-> NoError]
Raised(e) == [kind |-> "error", orders |-> << >>, error |-> e]

Order(sym, q, side) ==
    [symbol |-> sym, qty |-> q, side |-> side, type |-> "market"]

----------------------------------------------------------------------------
(* calculate_rebalancing_orders: the steps of one loop iteration *)

\* mutant: the CASH placeholder is not removed
Universe_KeepCash(positions, weights) ==
    DOMAIN positions \cup DOMAIN weights

\* the symbols involved: the union of the keys, without the CASH placeholder
Universe(positions, weights) ==
    (DOMAIN positions \cup DOMAIN weights) \ {"CASH"}

\* mutant: only a negative equity is rejected
EquityRejected_NegativeOnly(eq) == eq < 0

\* if equity_d <= 0: raise
EquityRejected(eq) == eq <= 0

\* mutant: only a target weight asks for a price
PriceRequired_WeightOnly(raw_qty, raw_weight) == raw_weight.v # 0

\* if raw_qty != 0 or raw_weight != 0: the price is validated
PriceRequired(raw_qty, raw_weight) == raw_qty.v # 0 \/ raw_weight.v # 0

\* 2. strict per-symbol validation: the first ValueError raised, or NoError
ValidateSymbol(sym, raw_qty, raw_weight, raw_price) ==
    LET eq == validate_not_nan("Qty", sym, raw_qty)
        ew == validate_not_nan("Weight", sym, raw_weight)
    IN  IF eq.raised THEN eq
        ELSE IF ew.raised THEN ew
        ELSE IF PriceRequired(raw_qty, raw_weight)
             THEN validate_not_nan("Price", sym, raw_price)
             ELSE NoError

\* mutant: the sign of the price is not checked
ConvertSymbol_NoNegativeCheck(sym, raw_qty, raw_weight, raw_price) ==
    LET qty_d == ToDecimal(raw_qty)
        weight_d == ToDecimal(raw_weight)
        price_d == ToDecimal(raw_price)
    IN  IF \/ qty_d.t = "InvalidOperation"
           \/ weight_d.t = "InvalidOperation"
           \/ price_d.t = "InvalidOperation"
        THEN ValueError("Non-numeric data found", "", sym)
        ELSE IF price_d.t = "decNaN"
        THEN ValueError("Non-numeric data found", "", sym)
        ELSE NoError

\* 3. the try block: the three conversions and the negative-price check.
\* Decimal('None') raises InvalidOperation, and so does the ordering
\* comparison of a Decimal NaN with 0; both are re-raised as "Non-numeric".
ConvertSymbol(sym, raw_qty, raw_weight, raw_price) ==
    LET qty_d == ToDecimal(raw_qty)
        weight_d == ToDecimal(raw_weight)
        price_d == ToDecimal(raw_price)
    IN  IF \/ qty_d.t = "InvalidOperation"
           \/ weight_d.t = "InvalidOperation"
           \/ price_d.t = "InvalidOperation"
        THEN ValueError("Non-numeric data found", "", sym)
        ELSE IF price_d.t = "decNaN"
        THEN ValueError("Non-numeric data found", "", sym)
        ELSE IF price_d.v < 0
        THEN ValueError("cannot be negative", "Price", sym)
        ELSE NoError

\* if qty_d == 0 and weight_d == 0: continue
Irrelevant(qty_d, weight_d) == qty_d = 0 /\ weight_d = 0

\* mutant: a zero price is an error only when buying
ZeroPriceCheck_BuyOnly(sym, weight_d, price_d) ==
    IF price_d = 0 /\ weight_d > 0
    THEN ValueError("is 0, cannot calculate buy quantity", "Price", sym)
    ELSE NoError

\* if price_d == 0: one of two ValueErrors
ZeroPriceCheck(sym, weight_d, price_d) ==
    IF price_d = 0
    THEN IF weight_d > 0
         THEN ValueError("is 0, cannot calculate buy quantity", "Price", sym)
         ELSE ValueError("is 0. Aborting rebalance", "Price", sym)
    ELSE NoError

\* mutant: the target value is multiplied by the price
TargetQty_TimesPrice(eq, weight_d, price_d) ==
    DecimalDivide(eq * weight_d * price_d, WeightDen)

\* target_qty_d = equity_d * weight_d / price_d
TargetQty(eq, weight_d, price_d) ==
    DecimalDivide(eq * weight_d, WeightDen * price_d)

\* mutant: a short result is clamped to a full close, whatever its size
ShortCheck_Clamp(sym, qty_d, diff_qty_d, short) ==
    IF qty_d + diff_qty_d < 0 /\ ~short
    THEN [diff |-> -qty_d, error |-> NoError]
    ELSE [diff |-> diff_qty_d, error |-> NoError]

\* mutant: the check does not look at allow_short
ShortCheck_IgnoreFlag(sym, qty_d, diff_qty_d, short) ==
    IF qty_d + diff_qty_d < 0
    THEN IF Abs(qty_d + diff_qty_d) < MIN_QTY_THRESHOLD
         THEN [diff |-> -qty_d, error |-> NoError]
         ELSE [diff |-> diff_qty_d,
               error |-> ValueError("illegal short position", "Weight", sym)]
    ELSE [diff |-> diff_qty_d, error |-> NoError]

\* mutant: within the epsilon the delta is kept as computed
ShortCheck_KeepDelta(sym, qty_d, diff_qty_d, short) ==
    IF qty_d + diff_qty_d < 0 /\ ~short
          /\ Abs(qty_d + diff_qty_d) >= MIN_QTY_THRESHOLD
    THEN [diff |-> diff_qty_d,
          error |-> ValueError("illegal short position", "Weight", sym)]
    ELSE [diff |-> diff_qty_d, error |-> NoError]

\* 4. short selling safety check: the delta to trade, or the ValueError
ShortCheck(sym, qty_d, diff_qty_d, short) ==
    LET final_qty_d == qty_d + diff_qty_d
    IN  IF final_qty_d < 0 /\ ~short
        THEN IF Abs(final_qty_d) < MIN_QTY_THRESHOLD
             THEN [diff |-> -qty_d, error |-> NoError]
             ELSE [diff |-> diff_qty_d,
                   error |-> ValueError("illegal short position", "Weight", sym)]
        ELSE [diff |-> diff_qty_d, error |-> NoError]

\* mutant: a liquidation does not override the notional threshold
Dust_NoLiquidation(diff_qty_d, weight_d, price_d) ==
    \/ Abs(diff_qty_d) < MIN_QTY_THRESHOLD
    \/ Abs(diff_qty_d) * price_d < MIN_TRADE_VALUE_THRESHOLD

\* mutant: only the quantity threshold is applied
Dust_QtyOnly(diff_qty_d, weight_d, price_d) ==
    Abs(diff_qty_d) < MIN_QTY_THRESHOLD

\* mutant: every non-positive weight overrides the notional threshold
Dust_OverrideNonPositive(diff_qty_d, weight_d, price_d) ==
    \/ Abs(diff_qty_d) < MIN_QTY_THRESHOLD
    \/ /\ Abs(diff_qty_d) * price_d < MIN_TRADE_VALUE_THRESHOLD
       /\ weight_d > 0

\* mutant: a liquidation overrides the quantity epsilon too
Dust_LiquidationFirst(diff_qty_d, weight_d, price_d) ==
    /\ ~(weight_d = 0)
    /\ \/ Abs(diff_qty_d) < MIN_QTY_THRESHOLD
       \/ Abs(diff_qty_d) * price_d < MIN_TRADE_VALUE_THRESHOLD

\* 5. dust thresholds: TRUE when the iteration continues without an order
Dust(diff_qty_d, weight_d, price_d) ==
    \/ Abs(diff_qty_d) < MIN_QTY_THRESHOLD
    \/ /\ Abs(diff_qty_d) * price_d < MIN_TRADE_VALUE_THRESHOLD
       /\ ~(weight_d = 0)

\* mutant: the sides are swapped
Side_Swapped(diff_qty_d) == IF diff_qty_d > 0 THEN "sell" ELSE "buy"

\* side = "buy" if diff_qty_d > 0 else "sell"
Side(diff_qty_d) == IF diff_qty_d > 0 THEN "buy" ELSE "sell"

IterContinue == [kind |-> "continue", error |-> NoError, order |-> Order("", 0, "")]
IterRaise(e) == [kind |-> "raise", error |-> e, order |-> Order("", 0, "")]
IterAppend(o) == [kind |-> "append", error |-> NoError, order |-> o]

\* the body of the for loop for one symbol: continue, raise or append
LoopBody(eq, positions, weights, prices, short, sym) ==
    LET raw_qty == DictGet(positions, sym, Num(0))
        raw_weight == DictGet(weights, sym, Num(0))
        raw_price == DictGet(prices, sym, None)
        ev == ValidateSymbol(sym, raw_qty, raw_weight, raw_price)
    IN  IF ev.raised THEN IterRaise(ev)
        ELSE
        LET ec == ConvertSymbol(sym, raw_qty, raw_weight, raw_price)
        IN  IF ec.raised THEN IterRaise(ec)
            ELSE
            LET qty_d == raw_qty.v
                weight_d == raw_weight.v
                price_d == raw_price.v
            IN  IF Irrelevant(qty_d, weight_d) THEN IterContinue
                ELSE
                LET ez == ZeroPriceCheck(sym, weight_d, price_d)
                IN  IF ez.raised THEN IterRaise(ez)
                    ELSE
                    \* a zero divisor raises decimal.DivisionByZero (or
                    \* InvalidOperation for 0/0), which nothing catches
                    IF price_d = 0 THEN IterRaise(DivisionByZero(sym))
                    ELSE
                    LET target_qty_d == TargetQty(eq, weight_d, price_d)
                        sc == ShortCheck(sym, qty_d, target_qty_d - qty_d, short)
                    IN  IF sc.error.raised THEN IterRaise(sc.error)
                        ELSE IF Dust(sc.diff, weight_d, price_d) THEN IterContinue
                        ELSE IterAppend(Order(sym, Abs(sc.diff), Side(sc.diff)))

----------------------------------------------------------------------------
(* The inputs of a call *)

Symbols == {"AAPL", "MSFT"}

\* no rebalance command is running
NoCommand ==
    /\ cmd_pc = "none"
    /\ weights_file = [kind |-> "none"]
    /\ dry_run = TRUE
    /\ force = FALSE
    /\ yes = FALSE
    /\ order_type = "market"
    /\ clock = "unchecked"
    /\ fetched = {}
    /\ sorted_orders = << >>
    /\ confirmed = "unasked"
    /\ submitted = << >>
    /\ message = ""

\* a dict entry: absent (no key) or one of the values
Absent == [t |-> "absent", v |-> 0]

EquityValues == {None, NaN, Num(-MaxEquity), Num(0), Num(MaxEquity)}

\* AAPL ranges over every value, MSFT over a coarser grid
QtyValues(s) ==
    IF s = "AAPL"
    THEN {Absent, NaN, Num(-MaxQty), Num(1 - MaxQty)}
             \cup {Num(n) : n \in 0..MaxQty}
    ELSE {Absent, Num(MaxQty)}
WeightValues(s) ==
    IF s = "AAPL"
    THEN {Absent, NaN} \cup {Num(n) : n \in -MaxWeight..MaxWeight}
    ELSE {Absent, Num(0), Num(MaxWeight)}
PriceValues(s) ==
    IF s = "AAPL"
    THEN {Absent, None, NaN} \cup {Num(n) : n \in -1..MaxPrice}
    ELSE {Absent, Num(0), Num(1)}

\* the CASH key: in no dict; a weight (and a price); NaN as quantity and
\* as weight; a quantity (and a price)
CashConfigs ==
    { [qty |-> Absent, weight |-> Absent, price |-> Absent],
      [qty |-> Absent, weight |-> Num(MaxWeight), price |-> Num(1)],
      [qty |-> NaN, weight |-> NaN, price |-> Absent],
      [qty |-> Num(MaxQty), weight |-> Absent, price |-> Num(1)] }

Keys == Symbols \cup {"CASH"}

\* the dict with the keys of f that are present
MakeDict(f) == [k \in {x \in DOMAIN f : f[x] # Absent} |-> f[k]]

----------------------------------------------------------------------------
(* The state machine: one call of calculate_rebalancing_orders *)

Init ==
    /\ current_equity \in EquityValues
    /\ \E a \in QtyValues("AAPL") \X WeightValues("AAPL") \X PriceValues("AAPL"),
          m \in QtyValues("MSFT") \X WeightValues("MSFT") \X PriceValues("MSFT"),
          c \in CashConfigs :
          /\ current_positions =
                MakeDict([k \in Keys |-> IF k = "AAPL" THEN a[1]
                                         ELSE IF k = "MSFT" THEN m[1] ELSE c.qty])
          /\ target_weights =
                MakeDict([k \in Keys |-> IF k = "AAPL" THEN a[2]
                                         ELSE IF k = "MSFT" THEN m[2] ELSE c.weight])
          /\ current_prices =
                MakeDict([k \in Keys |-> IF k = "AAPL" THEN a[3]
                                         ELSE IF k = "MSFT" THEN m[3] ELSE c.price])
    /\ allow_short \in BOOLEAN
    /\ pc = "start"
    /\ equity_d = 0
    /\ all_symbols = {}
    /\ symbol = ""
    /\ orders = << >>
    /\ result = Pending
    /\ calls = << >>
    /\ NoCommand

\* lines 157-176: validate and convert the equity, collect the symbols
Enter ==
    /\ pc = "start"
    /\ LET e == validate_not_nan("current_equity", "", current_equity)
       IN  IF e.raised
           THEN /\ pc' = "raised"
                /\ result' = Raised(e)
                /\ UNCHANGED << equity_d, all_symbols >>
           ELSE IF EquityRejected(current_equity.v)
           THEN /\ pc' = "raised"
                /\ result' = Raised(ValueError("must be positive",
                                               "current_equity", ""))
                /\ equity_d' = current_equity.v
                /\ UNCHANGED all_symbols
           ELSE /\ pc' = "loop"
                /\ equity_d' = current_equity.v
                /\ all_symbols' = Universe(current_positions, target_weights)
                /\ UNCHANGED result
    /\ UNCHANGED << args, symbol, orders, outside >>

\* mutant: a failing symbol is skipped and the loop goes on
Propagate_SkipFailed(o, os) ==
    [pc |-> "loop",
     orders |-> IF o.kind = "append" THEN Append(os, o.order) ELSE os,
     result |-> Pending]

\* what an iteration's outcome does to the call: a raise leaves the function
\* with the error and nothing else, a continue or an append goes on looping
Propagate(o, os) ==
    IF o.kind = "raise"
    THEN [pc |-> "raised", orders |-> os, result |-> Raised(o.error)]
    ELSE [pc |-> "loop",
          orders |-> IF o.kind = "append" THEN Append(os, o.order) ELSE os,
          result |-> Pending]

\* mutant: a symbol is visited again while fewer than two orders are built
Iterate_Revisits ==
    /\ pc = "loop"
    /\ \E s \in all_symbols :
          LET o == LoopBody(equity_d, current_positions, target_weights,
                            current_prices, allow_short, s)
          IN  /\ symbol' = s
              /\ all_symbols' = IF o.kind = "append" /\ Len(orders) < 2
                                THEN all_symbols ELSE all_symbols \ {s}
              /\ pc' = Propagate(o, orders).pc
              /\ orders' = Propagate(o, orders).orders
              /\ result' = Propagate(o, orders).result
    /\ UNCHANGED << args, equity_d, outside >>

\* lines 178-264: one iteration of the for loop, over any remaining symbol
Iterate ==
    /\ pc = "loop"
    /\ \E s \in all_symbols :
          LET o == LoopBody(equity_d, current_positions, target_weights,
                            current_prices, allow_short, s)
          IN  /\ symbol' = s
              /\ all_symbols' = all_symbols \ {s}
              /\ pc' = Propagate(o, orders).pc
              /\ orders' = Propagate(o, orders).orders
              /\ result' = Propagate(o, orders).result
    /\ UNCHANGED << args, equity_d, outside >>

\* line 266: return orders
Return ==
    /\ pc = "loop"
    /\ all_symbols = {}
    /\ pc' = "returned"
    /\ result' = Returned(orders)
    /\ UNCHANGED << args, equity_d, all_symbols, symbol, orders, outside >>

Next == Enter \/ Iterate \/ Return

Spec == Init /\ [][Next]_vars

----------------------------------------------------------------------------
(* The inputs of the call as the claims speak of them *)

\* the union of the position keys and the weight keys, CASH excluded
InvolvedSymbols ==
    {k \in DOMAIN current_positions \cup DOMAIN target_weights : k # "CASH"}

InputQty(s) == DictGet(current_positions, s, Num(0))
InputWeight(s) == DictGet(target_weights, s, Num(0))
HasPrice(s) == s \in DOMAIN current_prices

\* the quantity and the weight of s are numbers
NumericHolding(s) == IsNum(InputQty(s)) /\ IsNum(InputWeight(s))

\* s has a nonzero position quantity or a nonzero target weight
Relevant(s) ==
    NumericHolding(s) /\ (InputQty(s).v # 0 \/ InputWeight(s).v # 0)

\* s is relevant and has a positive price: its quantities are computed
Priced(s) ==
    Relevant(s) /\ HasPrice(s) /\ IsNum(current_prices[s])
                /\ current_prices[s].v > 0

PositiveEquity == IsNum(current_equity) /\ current_equity.v > 0

\* equity * weight / price as the decimal context rounds it (s Priced)
ComputedTarget(s) ==
    LET n == current_equity.v * InputWeight(s).v
        d == WeightDen * current_prices[s].v
        q == n \div d
    IN  IF 2 * (n - q * d) < d THEN q
        ELSE IF 2 * (n - q * d) > d THEN q + 1
        ELSE IF q % 2 = 0 THEN q ELSE q + 1

\* the final quantity: current quantity + (target - current quantity)
ComputedFinal(s) == InputQty(s).v + (ComputedTarget(s) - InputQty(s).v)

\* the orders of the returned list for s
OrdersFor(s) == {i \in 1..Len(result.orders) : result.orders[i].symbol = s}

\* the loop has just handled s
JustHandled(s) == symbol = s /\ pc \in {"loop", "raised"}

----------------------------------------------------------------------------
(* C1: whenever current_equity is zero or negative the call raises the     *)
(* "must be positive" error and returns no orders, whatever the maps hold: *)
(* it never enters the loop and never builds an order.                     *)
C1_NonPositiveEquityRaises ==
    (IsNum(current_equity) /\ current_equity.v <= 0 /\ pc # "start")
        => /\ pc = "raised"
           /\ result.kind = "error"
           /\ result.error.msg = "must be positive"
           /\ result.orders = << >>
           /\ orders = << >>

\* equity 0 or negative, with a NaN quantity in the positions, has raised
C1_Witness ==
    /\ pc = "raised"
    /\ IsNum(current_equity) /\ current_equity.v <= 0
    /\ "AAPL" \in DOMAIN current_positions
    /\ current_positions["AAPL"] = NaN

----------------------------------------------------------------------------
(* C2: all-or-nothing.  A symbol fails when its quantity or weight is None *)
(* or NaN, when it is relevant and its price is missing, None, NaN,        *)
(* negative or zero, or when it would end short beyond the epsilon with    *)
(* shorting disallowed.  A call that returns a list has no failing symbol, *)
(* and a call that raised hands the caller the error and no order, also    *)
(* when orders were already computed for other symbols.                    *)
SymbolFails(s) ==
    \/ ~NumericHolding(s)
    \/ /\ Relevant(s)
       /\ \/ ~HasPrice(s)
          \/ ~IsNum(current_prices[s])
          \/ current_prices[s].v <= 0
    \/ /\ Priced(s)
       /\ ~allow_short
       /\ ComputedFinal(s) < 0
       /\ -ComputedFinal(s) >= MIN_QTY_THRESHOLD

C2_AllOrNothing ==
    /\ pc = "returned" => \A s \in InvolvedSymbols : ~SymbolFails(s)
    /\ pc = "raised" => result.kind = "error" /\ result.orders = << >>
    /\ result.kind = "list" => pc = "returned"

\* an order was computed for one symbol, then another symbol failed
C2_Witness ==
    /\ pc = "raised"
    /\ Len(orders) > 0
    /\ result.kind = "error"
    /\ \E s \in InvolvedSymbols : SymbolFails(s)

----------------------------------------------------------------------------
(* C3: with allow_short false, a symbol whose computed final quantity is   *)
(* negative by more than the epsilon makes the call raise the illegal      *)
(* short error for that symbol: the call never returns, and no order is    *)
(* ever built for the symbol.                                              *)
ImpliesShort(s) ==
    PositiveEquity /\ Priced(s) /\ ComputedFinal(s) < 0

C3_ShortRaises ==
    \A s \in InvolvedSymbols :
        (~allow_short /\ ImpliesShort(s)
                      /\ -ComputedFinal(s) > MIN_QTY_THRESHOLD)
            => /\ pc # "returned"
               /\ \A i \in 1..Len(orders) : orders[i].symbol # s
               /\ JustHandled(s) =>
                     /\ pc = "raised"
                     /\ result.error.msg = "illegal short position"
                     /\ result.error.symbol = s

C3_Witness ==
    /\ ~allow_short
    /\ JustHandled("AAPL")
    /\ ImpliesShort("AAPL")
    /\ -ComputedFinal("AAPL") > MIN_QTY_THRESHOLD
    /\ result.error.msg = "illegal short position"

----------------------------------------------------------------------------
(* target - current quantity, before the short check (s Priced) *)
ComputedDelta(s) == ComputedTarget(s) - InputQty(s).v

\* the delta passes both dust thresholds
ClearsDust(s) ==
    /\ Abs(ComputedDelta(s)) >= MIN_QTY_THRESHOLD
    /\ Abs(ComputedDelta(s)) * current_prices[s].v >= MIN_TRADE_VALUE_THRESHOLD

(* C4 as stated: with allow_short true, every symbol whose weight and      *)
(* position imply a negative final holding gets a sell order.              *)
C4_Original ==
    \A s \in InvolvedSymbols :
        (allow_short /\ ImpliesShort(s) /\ pc = "returned")
            => \E i \in OrdersFor(s) : result.orders[i].side = "sell"

(* C4 amended: with allow_short true, a symbol whose weight and position   *)
(* imply a negative final holding raises no error, and the returned list   *)
(* holds a sell order for it whenever its delta (target - current) is      *)
(* negative and clears both dust thresholds.                               *)
C4_ShortAllowed ==
    \A s \in InvolvedSymbols :
        (allow_short /\ ImpliesShort(s))
            => /\ result.error.msg # "illegal short position"
               /\ JustHandled(s) => pc = "loop"
               /\ (pc = "returned" /\ ComputedDelta(s) < 0 /\ ClearsDust(s))
                     => /\ Cardinality(OrdersFor(s)) = 1
                        /\ \A i \in OrdersFor(s) :
                              /\ result.orders[i].side = "sell"
                              /\ result.orders[i].qty = -ComputedDelta(s)

C4_Witness ==
    /\ allow_short
    /\ pc = "returned"
    /\ ImpliesShort("AAPL")
    /\ \E i \in OrdersFor("AAPL") : result.orders[i].side = "sell"

----------------------------------------------------------------------------
(* s is held, has target weight exactly 0 (explicit or absent) and a valid *)
(* positive price                                                          *)
Liquidated(s) ==
    PositiveEquity /\ Priced(s) /\ InputQty(s).v # 0 /\ InputWeight(s).v = 0

\* the returned list holds exactly one order for s, closing the holding
ClosedInFull(s) ==
    /\ Cardinality(OrdersFor(s)) = 1
    /\ \A i \in OrdersFor(s) :
          /\ result.orders[i].qty = Abs(InputQty(s).v)
          /\ result.orders[i].side =
                (IF InputQty(s).v > 0 THEN "sell" ELSE "buy")

(* C5 as stated: every held symbol with weight 0 and a valid price is      *)
(* closed by exactly one order, however small its quantity.                *)
C5_Original ==
    \A s \in InvolvedSymbols :
        (pc = "returned" /\ Liquidated(s)) => ClosedInFull(s)

(* C5 amended: every held symbol with weight 0, a valid positive price and *)
(* a quantity of at least the minimum-quantity epsilon is closed by        *)
(* exactly one order for the full quantity, however small its notional     *)
(* value; a holding below the epsilon yields no order.                     *)
C5_LiquidationOverride ==
    \A s \in InvolvedSymbols :
        (pc = "returned" /\ Liquidated(s))
            => IF Abs(InputQty(s).v) >= MIN_QTY_THRESHOLD
               THEN ClosedInFull(s)
               ELSE OrdersFor(s) = {}

\* a holding worth less than the notional threshold was closed
C5_Witness ==
    /\ pc = "returned"
    /\ Liquidated("AAPL")
    /\ Abs(InputQty("AAPL").v) * current_prices["AAPL"].v
          < MIN_TRADE_VALUE_THRESHOLD
    /\ ClosedInFull("AAPL")

----------------------------------------------------------------------------
(* C6: a symbol with quantity 0 and weight 0 and no entry in the price map *)
(* is skipped: handling it neither raises nor builds an order.             *)
C6_IrrelevantNeedsNoPrice ==
    \A s \in InvolvedSymbols :
        ( /\ NumericHolding(s)
          /\ InputQty(s).v = 0 /\ InputWeight(s).v = 0
          /\ ~HasPrice(s)
          /\ JustHandled(s) )
            => /\ pc = "loop"
               /\ \A i \in 1..Len(orders) : orders[i].symbol # s

----------------------------------------------------------------------------
(* C7: no order, built or returned, references CASH, and the loop never    *)
(* visits CASH, whether CASH is a key of the weights, of the positions or  *)
(* of both and whatever is attached to it.                                 *)
C7_NoCashOrder ==
    /\ \A i \in 1..Len(orders) : orders[i].symbol # "CASH"
    /\ \A i \in 1..Len(result.orders) : result.orders[i].symbol # "CASH"
    /\ "CASH" \notin all_symbols

\* a list with orders was returned with CASH among the weights and prices
C7_Witness ==
    /\ pc = "returned"
    /\ Len(result.orders) > 0
    /\ "CASH" \in DOMAIN target_weights
    /\ "CASH" \in DOMAIN current_prices

----------------------------------------------------------------------------
\* the price of s is missing from the price map, None or NaN
BadPrice(s) == ~HasPrice(s) \/ current_prices[s] \in {None, NaN}

(* C8: a relevant symbol whose price is missing, None or NaN makes the     *)
(* call raise the data validation error naming the price of that symbol:   *)
(* the call never returns and no order is built for the symbol.            *)
C8_BadPriceRaises ==
    \A s \in InvolvedSymbols :
        (Relevant(s) /\ BadPrice(s))
            => /\ pc # "returned"
               /\ \A i \in 1..Len(orders) : orders[i].symbol # s
               /\ JustHandled(s) =>
                     /\ pc = "raised"
                     /\ result.error.name = "Price"
                     /\ result.error.symbol = s
                     /\ result.error.msg \in {"is None (Missing)", "is NaN"}

\* a held symbol without a price entry has raised
C8_Witness ==
    /\ JustHandled("AAPL")
    /\ Relevant("AAPL")
    /\ InputWeight("AAPL").v = 0
    /\ ~HasPrice("AAPL")
    /\ pc = "raised"

----------------------------------------------------------------------------
(* C9: a relevant symbol with a price of exactly 0 makes the call raise    *)
(* the zero-price error for that symbol, the buy message when the weight   *)
(* is positive and the abort message otherwise; no division by zero is     *)
(* ever reached.                                                           *)
C9_ZeroPriceRaises ==
    /\ result.error.msg # "DivisionByZero"
    /\ \A s \in InvolvedSymbols :
          (Relevant(s) /\ HasPrice(s) /\ current_prices[s] = Num(0))
              => /\ pc # "returned"
                 /\ JustHandled(s) =>
                       /\ pc = "raised"
                       /\ result.error.name = "Price"
                       /\ result.error.symbol = s
                       /\ result.error.msg =
                             (IF InputWeight(s).v > 0
                              THEN "is 0, cannot calculate buy quantity"
                              ELSE "is 0. Aborting rebalance")

\* a liquidation at price 0 was refused
C9_Witness ==
    /\ JustHandled("AAPL")
    /\ Relevant("AAPL")
    /\ InputWeight("AAPL").v = 0
    /\ HasPrice("AAPL") /\ current_prices["AAPL"] = Num(0)
    /\ result.error.msg = "is 0. Aborting rebalance"

----------------------------------------------------------------------------
\* WeightDen * |quantity * price - equity * weight| for a priced entry of s
ValueGap(s) ==
    Abs(InputQty(s).v * current_prices[s].v * WeightDen
            - current_equity.v * InputWeight(s).v)

\* s has numbers for quantity, weight and price (no price is needed when
\* there is neither a holding nor a target)
Valued(s) ==
    /\ NumericHolding(s)
    /\ \/ InputQty(s).v = 0 /\ InputWeight(s).v = 0
       \/ HasPrice(s) /\ IsNum(current_prices[s]) /\ current_prices[s].v > 0

\* the current value of s is within the notional threshold of its target
Balanced(s) ==
    /\ Valued(s)
    /\ Relevant(s) => ValueGap(s) < WeightDen * MIN_TRADE_VALUE_THRESHOLD

(* C10 as stated: when every symbol's current value is within the notional *)
(* threshold of equity * weight, the returned list is empty.               *)
C10_Original ==
    (PositiveEquity /\ pc = "returned"
                    /\ \A s \in InvolvedSymbols : Balanced(s))
        => result.orders = << >>

\* the same, with a margin of the rounding of the quotient: half a
\* quantity unit, worth price / 2
BalancedWithMargin(s) ==
    /\ Valued(s)
    /\ Relevant(s) =>
          2 * ValueGap(s)
              < WeightDen * (2 * MIN_TRADE_VALUE_THRESHOLD - current_prices[s].v)

\* s is a holding of at least the epsilon with target weight exactly 0
LiquidationDue(s) ==
    /\ NumericHolding(s)
    /\ InputWeight(s).v = 0
    /\ Abs(InputQty(s).v) >= MIN_QTY_THRESHOLD

\* s has a negative target while shorting is disallowed
ShortTargetBlocked(s) ==
    NumericHolding(s) /\ InputWeight(s).v < 0 /\ ~allow_short

(* C10 amended: the returned list is empty for every input on which the    *)
(* call returns and in which every symbol's current value is within the    *)
(* notional threshold of equity * weight by more than the rounding of the  *)
(* decimal quotient (half a quantity unit at the symbol's price), no       *)
(* holding of at least the epsilon has target weight exactly 0, and no     *)
(* weight is negative while shorting is disallowed.                        *)
C10_BalancedNoOrders ==
    ( /\ PositiveEquity
      /\ pc = "returned"
      /\ \A s \in InvolvedSymbols :
            /\ BalancedWithMargin(s)
            /\ ~LiquidationDue(s)
            /\ ~ShortTargetBlocked(s) )
        => result.orders = << >>

\* a call returned no order although AAPL is off its target by a trade
\* that clears the quantity epsilon
C10_Witness ==
    /\ pc = "returned"
    /\ result.orders = << >>
    /\ Priced("AAPL")
    /\ InputQty("AAPL").v # 0 /\ InputWeight("AAPL").v # 0
    /\ Abs(ComputedDelta("AAPL")) >= MIN_QTY_THRESHOLD
    /\ \A s \in InvolvedSymbols :
          /\ BalancedWithMargin(s)
          /\ ~LiquidationDue(s)
          /\ ~ShortTargetBlocked(s)
----------------------------------------------------------------------------
\* equity * weight and WeightDen * price: the exact target is their quotient
TargetNum(s) == current_equity.v * InputWeight(s).v
TargetDen(s) == WeightDen * current_prices[s].v

\* the epsilon snap applies to s: shorting is disallowed and the computed
\* final quantity is negative by less than the epsilon
SnapApplies(s) ==
    /\ ~allow_short
    /\ ImpliesShort(s)
    /\ -ComputedFinal(s) < MIN_QTY_THRESHOLD

\* o.qty is |equity * weight / price - currentQty| to within the rounding
\* of the quotient (half a quantity unit)
WithinRounding(o) ==
    LET s == o.symbol
    IN  2 * Abs(o.qty * TargetDen(s)
                  - Abs(TargetNum(s) - InputQty(s).v * TargetDen(s)))
            <= TargetDen(s)

(* C11 as stated: every returned order's quantity is                       *)
(* |equity * weight / price - currentQty| within the decimal rounding.     *)
C11_Original ==
    \A i \in 1..Len(result.orders) : WithinRounding(result.orders[i])

(* C11 amended: every returned order's quantity is                         *)
(* |equity * weight / price - currentQty| within the decimal rounding,     *)
(* except under the epsilon snap, where it is exactly |currentQty|.        *)
C11_Conservation ==
    \A i \in 1..Len(result.orders) :
        IF SnapApplies(result.orders[i].symbol)
        THEN result.orders[i].qty = Abs(InputQty(result.orders[i].symbol).v)
        ELSE WithinRounding(result.orders[i])

\* an order for AAPL whose exact target is no whole number of units
C11_Witness ==
    /\ pc = "returned"
    /\ \E i \in OrdersFor("AAPL") :
          /\ ~SnapApplies("AAPL")
          /\ TargetNum("AAPL") % TargetDen("AAPL") # 0
          /\ "AAPL" \notin DOMAIN current_positions
----------------------------------------------------------------------------
\* the delta the dust thresholds are applied to: -currentQty under the
\* snap, target - currentQty otherwise (s Priced)
TradedDelta(s) ==
    IF SnapApplies(s) THEN -InputQty(s).v ELSE ComputedDelta(s)

\* the notional of the trade of s
TradedValue(s) == Abs(TradedDelta(s)) * current_prices[s].v

(* C12 as stated: a symbol is in the output only if |deltaQty| * price     *)
(* exceeds the minimum notional threshold or its target weight is exactly  *)
(* 0, and a symbol at its target has no entry.                             *)
C12_Original ==
    \A i \in 1..Len(result.orders) :
        LET s == result.orders[i].symbol
        IN  /\ \/ TradedValue(s) > MIN_TRADE_VALUE_THRESHOLD
               \/ InputWeight(s).v = 0
            /\ TradedDelta(s) # 0

(* C12 amended: a symbol is in the output only if |deltaQty| * price is at *)
(* least the minimum notional threshold or its target weight is exactly 0, *)
(* and a symbol at its target has no entry.                                *)
C12_Minimality ==
    \A i \in 1..Len(result.orders) :
        LET s == result.orders[i].symbol
        IN  /\ \/ TradedValue(s) >= MIN_TRADE_VALUE_THRESHOLD
               \/ InputWeight(s).v = 0
            /\ TradedDelta(s) # 0

\* AAPL sits at its target and has no entry, MSFT has one
C12_Witness ==
    /\ pc = "returned"
    /\ Priced("AAPL") /\ InputWeight("AAPL").v # 0
    /\ TradedDelta("AAPL") = 0
    /\ OrdersFor("AAPL") = {}
    /\ OrdersFor("MSFT") # {}
----------------------------------------------------------------------------
(* C13: a trade whose notional |deltaQty| * price is below the minimum     *)
(* notional threshold yields no order when the target weight is not        *)
(* exactly 0; every returned order below the threshold has weight 0.       *)
C13_DustSuppressed ==
    /\ \A s \in InvolvedSymbols :
          ( /\ pc = "returned"
            /\ Priced(s)
            /\ InputWeight(s).v # 0
            /\ TradedValue(s) < MIN_TRADE_VALUE_THRESHOLD )
              => OrdersFor(s) = {}
    /\ \A i \in 1..Len(result.orders) :
          TradedValue(result.orders[i].symbol) < MIN_TRADE_VALUE_THRESHOLD
              => InputWeight(result.orders[i].symbol).v = 0

\* a trade of AAPL that clears the epsilon but not the notional threshold
\* was suppressed, while the list holds a liquidation below the threshold
C13_Witness ==
    /\ pc = "returned"
    /\ Priced("AAPL")
    /\ InputWeight("AAPL").v # 0
    /\ Abs(TradedDelta("AAPL")) >= MIN_QTY_THRESHOLD
    /\ TradedValue("AAPL") < MIN_TRADE_VALUE_THRESHOLD
    /\ OrdersFor("AAPL") = {}
    /\ \E i \in OrdersFor("MSFT") :
          TradedValue("MSFT") < MIN_TRADE_VALUE_THRESHOLD
----------------------------------------------------------------------------
(* C14: every order, built or returned, has a quantity of at least the     *)
(* minimum-quantity epsilon; a liquidation below the epsilon is not        *)
(* emitted.                                                                *)
C14_MinQuantity ==
    /\ \A i \in 1..Len(orders) : orders[i].qty >= MIN_QTY_THRESHOLD
    /\ \A i \in 1..Len(result.orders) :
          result.orders[i].qty >= MIN_QTY_THRESHOLD
    /\ \A s \in InvolvedSymbols :
          ( /\ pc = "returned"
            /\ Priced(s)
            /\ Abs(TradedDelta(s)) < MIN_QTY_THRESHOLD )
              => OrdersFor(s) = {}

\* a holding of AAPL below the epsilon with weight 0 was left alone
C14_Witness ==
    /\ pc = "returned"
    /\ Liquidated("AAPL")
    /\ Abs(InputQty("AAPL").v) < MIN_QTY_THRESHOLD
    /\ OrdersFor("AAPL") = {}
    /\ OrdersFor("MSFT") # {}
----------------------------------------------------------------------------
(* C15: every order, built or returned, has a strictly positive quantity   *)
(* and kind "market", and its side is "buy" exactly when the symbol's      *)
(* target quantity equity * weight / price is above its current quantity   *)
(* and "sell" exactly when it is below.                                    *)
WellFormedOrder(o) ==
    /\ o.qty > 0
    /\ o.type = "market"
    /\ o.side \in {"buy", "sell"}
    /\ o.side = "buy" <=>
          TargetNum(o.symbol) > InputQty(o.symbol).v * TargetDen(o.symbol)
    /\ o.side = "sell" <=>
          TargetNum(o.symbol) < InputQty(o.symbol).v * TargetDen(o.symbol)

C15_OrderShape ==
    /\ \A i \in 1..Len(orders) : WellFormedOrder(orders[i])
    /\ \A i \in 1..Len(result.orders) : WellFormedOrder(result.orders[i])

\* the returned list holds a buy and a sell
C15_Witness ==
    /\ pc = "returned"
    /\ \E i, j \in 1..Len(result.orders) :
          result.orders[i].side = "buy" /\ result.orders[j].side = "sell"

----------------------------------------------------------------------------
\* every returned order for s trades exactly the full current quantity
TradesFullHolding(s) ==
    \A i \in OrdersFor(s) : result.orders[i].qty = Abs(InputQty(s).v)

(* C16 as stated: under the epsilon snap no error is raised for the        *)
(* symbol, any order for it is a sell of exactly the full current          *)
(* quantity, and there is no order when the current quantity is below the  *)
(* epsilon.                                                                *)
C16_Original ==
    \A s \in InvolvedSymbols :
        SnapApplies(s)
            => /\ JustHandled(s) => pc = "loop"
               /\ TradesFullHolding(s)
               /\ \A i \in OrdersFor(s) : result.orders[i].side = "sell"
               /\ Abs(InputQty(s).v) < MIN_QTY_THRESHOLD => OrdersFor(s) = {}

(* C16 amended: under the epsilon snap no error is raised for the symbol,  *)
(* any order for it trades exactly the full current quantity, as a sell    *)
(* when the current quantity is positive and as a buy when it is negative  *)
(* (a held short), and there is no order when the current quantity is      *)
(* below the epsilon.                                                      *)
C16_EpsilonSnap ==
    \A s \in InvolvedSymbols :
        SnapApplies(s)
            => /\ JustHandled(s) => pc = "loop"
               /\ TradesFullHolding(s)
               /\ \A i \in OrdersFor(s) :
                     result.orders[i].side =
                        (IF InputQty(s).v > 0 THEN "sell" ELSE "buy")
               /\ Abs(InputQty(s).v) < MIN_QTY_THRESHOLD => OrdersFor(s) = {}

\* the snap sold the full holding of AAPL
C16_Witness ==
    /\ pc = "returned"
    /\ SnapApplies("AAPL")
    /\ InputQty("AAPL").v > 0
    /\ OrdersFor("AAPL") # {}
    /\ TradesFullHolding("AAPL")
----------------------------------------------------------------------------
\* the map d with every involved symbol it lacks added with the value 0
WithZeros(d) ==
    [k \in DOMAIN d \cup InvolvedSymbols |->
        IF k \in DOMAIN d THEN d[k] ELSE Num(0)]

\* what the loop does with s when the maps spell out the missing entries
ExplicitOutcome(s) ==
    LoopBody(equity_d, WithZeros(current_positions),
             WithZeros(target_weights), current_prices, allow_short, s)

\* s is held, priced and has no entry in the target weights
HeldUntargeted(s) ==
    /\ s \in DOMAIN current_positions /\ s \notin DOMAIN target_weights
    /\ IsNum(current_positions[s]) /\ current_positions[s].v > 0

\* s is targeted and has no entry in the positions
TargetedUnheld(s) ==
    /\ s \in DOMAIN target_weights /\ s \notin DOMAIN current_positions
    /\ IsNum(target_weights[s]) /\ target_weights[s].v > 0

----------------------------------------------------------------------------
\* v is a value validate_not_nan rejects: None or a float NaN
Rejected(v) == v \in {None, NaN}

\* the call raised the validation error of the field name of symbol sym
RaisedInvalid(name, sym, v) ==
    /\ pc = "raised"
    /\ result.error.name = name
    /\ result.error.symbol = sym
    /\ result.error.msg = (IF v = None THEN "is None (Missing)" ELSE "is NaN")

\* the call raised one of the two errors of validate_not_nan
RaisedByValidator ==
    pc = "raised" /\ result.error.msg \in {"is None (Missing)", "is NaN"}

(* C18: validate_not_nan fails exactly when the value is None or NaN and   *)
(* never changes the value.  For the equity: once validated, the call has  *)
(* raised a validator error exactly when the equity is None or NaN, and a  *)
(* numeric equity, negative and zero included, is converted unchanged.     *)
(* For the symbol just handled: the first of quantity, weight and (when    *)
(* the symbol is relevant) price that is None or NaN is the one the error  *)
(* names, and a validator error was raised only if there is one.           *)
C18_ValidateNotNan ==
    /\ pc # "start" =>
          /\ Rejected(current_equity)
              => RaisedInvalid("current_equity", "", current_equity)
          /\ IsNum(current_equity)
              => /\ equity_d = current_equity.v
                 /\ symbol = "" => ~RaisedByValidator
    /\ \A s \in InvolvedSymbols :
          JustHandled(s) =>
             LET q == InputQty(s)
                 w == InputWeight(s)
                 p == IF HasPrice(s) THEN current_prices[s] ELSE None
             IN  IF Rejected(q) THEN RaisedInvalid("Qty", s, q)
                 ELSE IF Rejected(w) THEN RaisedInvalid("Weight", s, w)
                 ELSE IF (q.v # 0 \/ w.v # 0) /\ Rejected(p)
                      THEN RaisedInvalid("Price", s, p)
                 ELSE ~RaisedByValidator

\* a negative quantity and a zero weight passed and the None price failed
C18_Witness ==
    /\ symbol = "AAPL"
    /\ IsNum(InputQty("AAPL")) /\ InputQty("AAPL").v < 0
    /\ InputWeight("AAPL") = Num(0)
    /\ HasPrice("AAPL") /\ current_prices["AAPL"] = None
    /\ RaisedInvalid("Price", "AAPL", None)

----------------------------------------------------------------------------
\* s is relevant and its price is a negative number
NegativelyPriced(s) ==
    /\ Relevant(s)
    /\ HasPrice(s) /\ IsNum(current_prices[s]) /\ current_prices[s].v < 0

(* C19: a relevant symbol with a negative price makes the call raise: the  *)
(* call never returns a list, handling the symbol raises the "cannot be    *)
(* negative" price error for it, and no order is ever built for it.        *)
C19_NegativePriceRaises ==
    \A s \in InvolvedSymbols :
        NegativelyPriced(s)
            => /\ pc # "returned"
               /\ JustHandled(s)
                   => /\ pc = "raised"
                      /\ result.error.msg = "cannot be negative"
                      /\ result.error.name = "Price"
                      /\ result.error.symbol = s
               /\ \A i \in 1..Len(orders) : orders[i].symbol # s

\* AAPL, with a nonzero weight and a negative price, was handled
C19_Witness ==
    /\ JustHandled("AAPL")
    /\ NegativelyPriced("AAPL")
    /\ InputWeight("AAPL").v # 0
    /\ pc = "raised"

----------------------------------------------------------------------------
(* C20: every error raised for a symbol names that symbol and the field    *)
(* at fault, one of quantity, weight and price.                            *)
C20_ErrorsNameSymbolAndField ==
    (pc = "raised" /\ symbol # "")
        => /\ result.kind = "error"
           /\ result.error.symbol = symbol
           /\ result.error.name \in {"Qty", "Weight", "Price"}
----------------------------------------------------------------------------
(* Concurrent calls of calculate_rebalancing_orders.  Each call has its    *)
(* own frame: its arguments and its locals (equity_d, orders, all_symbols, *)
(* symbol).  A step of one call may come between any two steps of the      *)
(* other; the module has no global the function reads or writes.           *)

CallIds == {1, 2}

\* the variables of the single call, which the concurrent calls leave alone
single ==
    << args, pc, equity_d, all_symbols, symbol, orders, result, command >>

\* the arguments of a concurrent call, over a coarse grid
ConcArgs ==
    { [current_equity |-> e,
       current_positions |->
           MakeDict([k \in Keys |-> IF k = "AAPL" THEN q
                                    ELSE IF k = "MSFT" THEN Num(MaxQty)
                                    ELSE Absent]),
       target_weights |->
           MakeDict([k \in Keys |-> IF k = "AAPL" THEN w[1]
                                    ELSE IF k = "MSFT" THEN w[2]
                                    ELSE Num(1)]),
       current_prices |->
           MakeDict([k \in Keys |-> IF k = "AAPL" THEN p
                                    ELSE IF k = "MSFT" THEN Num(1)
                                    ELSE Absent]),
       allow_short |-> FALSE] :
         e \in {Num(0), Num(MaxEquity)},
         q \in {Absent, Num(MaxQty)},
         w \in {NaN, Num(0), Num(MaxWeight)} \X {Absent, Num(1)},
         p \in {Num(0), Num(1)} }

\* the frame of a call that has not started
NewCall(a) ==
    [current_equity |-> a.current_equity,
     current_positions |-> a.current_positions,
     target_weights |-> a.target_weights,
     current_prices |-> a.current_prices,
     allow_short |-> a.allow_short,
     pc |-> "start", equity_d |-> 0, all_symbols |-> {}, symbol |-> "",
     orders |-> << >>, result |-> Pending]

\* the arguments held by a frame
ArgsOf(f) ==
    [current_equity |-> f.current_equity,
     current_positions |-> f.current_positions,
     target_weights |-> f.target_weights,
     current_prices |-> f.current_prices,
     allow_short |-> f.allow_short]

ConcInit ==
    /\ calls \in [CallIds -> {NewCall(a) : a \in ConcArgs}]
    /\ current_equity = None
    /\ current_positions = << >>
    /\ target_weights = << >>
    /\ current_prices = << >>
    /\ allow_short = FALSE
    /\ pc = "start"
    /\ equity_d = 0
    /\ all_symbols = {}
    /\ symbol = ""
    /\ orders = << >>
    /\ result = Pending
    /\ NoCommand

\* mutant: the list is a module-level one that every call appends to
OrdersOf_Shared(cs, c) == cs[1].orders

\* orders = []: the list a call appends to is its own local
OrdersOf(cs, c) == cs[c].orders

\* mutant: the call removes CASH from the weights it was passed
EnterOf_PopsCash(c) ==
    /\ calls[c].pc = "start"
    /\ calls' = [calls EXCEPT ![c].pc = "loop",
                              ![c].equity_d = calls[c].current_equity.v,
                              ![c].target_weights =
                                  [k \in DOMAIN calls[c].target_weights \ {"CASH"}
                                      |-> calls[c].target_weights[k]],
                              ![c].all_symbols =
                                  Universe(calls[c].current_positions,
                                           calls[c].target_weights)]
    /\ UNCHANGED single

\* lines 157-176 in call c
EnterOf(c) ==
    /\ calls[c].pc = "start"
    /\ LET f == calls[c]
           e == validate_not_nan("current_equity", "", f.current_equity)
       IN  calls' = [calls EXCEPT ![c] =
              IF e.raised
              THEN [f EXCEPT !.pc = "raised", !.result = Raised(e)]
              ELSE IF EquityRejected(f.current_equity.v)
              THEN [f EXCEPT !.pc = "raised",
                             !.result = Raised(ValueError("must be positive",
                                                          "current_equity", "")),
                             !.equity_d = f.current_equity.v]
              ELSE [f EXCEPT !.pc = "loop",
                             !.equity_d = f.current_equity.v,
                             !.all_symbols = Universe(f.current_positions,
                                                      f.target_weights)]]
    /\ UNCHANGED single

\* lines 178-264 in call c: one iteration of its for loop
IterateOf(c) ==
    /\ calls[c].pc = "loop"
    /\ \E s \in calls[c].all_symbols :
          LET f == calls[c]
              o == LoopBody(f.equity_d, f.current_positions, f.target_weights,
                            f.current_prices, f.allow_short, s)
              p == Propagate(o, OrdersOf(calls, c))
          IN  calls' = [calls EXCEPT ![c] =
                 [f EXCEPT !.symbol = s,
                           !.all_symbols = f.all_symbols \ {s},
                           !.pc = p.pc,
                           !.orders = p.orders,
                           !.result = p.result]]
    /\ UNCHANGED single

\* line 266 in call c
ReturnOf(c) ==
    /\ calls[c].pc = "loop"
    /\ calls[c].all_symbols = {}
    /\ calls' = [calls EXCEPT ![c].pc = "returned",
                              ![c].result = Returned(OrdersOf(calls, c))]
    /\ UNCHANGED single

ConcNext == \E c \in CallIds : EnterOf(c) \/ IterateOf(c) \/ ReturnOf(c)

SpecConc == ConcInit /\ [][ConcNext]_vars

\* what the for loop can hand the caller when it runs to its end alone, from
\* the symbols rem still to visit and the orders os built so far
RECURSIVE LoopResults(_, _, _)
LoopResults(a, rem, os) ==
    IF rem = {} THEN {Returned(os)}
    ELSE UNION { LET o == LoopBody(a.current_equity.v, a.current_positions,
                                   a.target_weights, a.current_prices,
                                   a.allow_short, s)
                 IN  IF o.kind = "raise" THEN {Raised(o.error)}
                     ELSE LoopResults(a, rem \ {s}, Propagate(o, os).orders)
                 : s \in rem }

\* what a call with the arguments a can hand its caller when it runs alone
\* (one result for each order the set all_symbols may be iterated in)
RunAlone(a) ==
    LET e == validate_not_nan("current_equity", "", a.current_equity)
    IN  IF e.raised THEN {Raised(e)}
        ELSE IF EquityRejected(a.current_equity.v)
        THEN {Raised(ValueError("must be positive", "current_equity", ""))}
        ELSE LoopResults(a, Universe(a.current_positions, a.target_weights),
                         << >>)
----------------------------------------------------------------------------
\* the calls c and d received equal arguments
EqualArgs(c, d) == ArgsOf(calls[c]) = ArgsOf(calls[d])

\* call c is over: it returned or raised
Finished(c) == calls[c].pc \in {"returned", "raised"}

\* the orders call c returned, as a set
OrderSet(c) ==
    {calls[c].result.orders[i] : i \in 1..Len(calls[c].result.orders)}

(* C21: no step of a call changes the equity, the positions, the weights,  *)
(* the prices or the flag it was passed, whether the call goes on, returns *)
(* or raises; and two calls with equal arguments, run one after the other  *)
(* or interleaved, end alike: both raise or both return, and the lists     *)
(* they return hold the same orders.                                       *)
C21_Pure ==
    /\ [][\A c \in CallIds : ArgsOf(calls'[c]) = ArgsOf(calls[c])]_vars
    /\ [](\A c, d \in CallIds :
             (EqualArgs(c, d) /\ Finished(c) /\ Finished(d))
                 => /\ calls[c].pc = calls[d].pc
                    /\ OrderSet(c) = OrderSet(d)
                    /\ Len(calls[c].result.orders) = Len(calls[d].result.orders))

\* two calls with equal arguments, CASH among the weights, both returned
\* the same non-empty list
C21_Witness ==
    /\ EqualArgs(1, 2)
    /\ calls[1].pc = "returned" /\ calls[2].pc = "returned"
    /\ "CASH" \in DOMAIN calls[1].target_weights
    /\ OrderSet(1) # {}
    /\ OrderSet(1) = OrderSet(2)

----------------------------------------------------------------------------
(* C22: whatever the interleaving of the steps of two calls, a call that   *)
(* is over returned or raised one of the results it can produce when it    *)
(* runs alone on its arguments, and while it runs its orders are built     *)
(* from its own arguments only.                                            *)
C22_NoInterference ==
    \A c \in CallIds :
        /\ Finished(c) => calls[c].result \in RunAlone(ArgsOf(calls[c]))
        /\ \A i \in 1..Len(calls[c].orders) :
              LET o == calls[c].orders[i]
              IN  LoopBody(calls[c].equity_d, calls[c].current_positions,
                           calls[c].target_weights, calls[c].current_prices,
                           calls[c].allow_short, o.symbol) = IterAppend(o)

\* call 1 returned orders while call 2, on other arguments, was in its loop
\* with an order built
C22_Witness ==
    /\ ~EqualArgs(1, 2)
    /\ calls[1].pc = "returned" /\ Len(calls[1].result.orders) > 0
    /\ calls[2].pc = "loop" /\ Len(calls[2].orders) > 0
    /\ calls[2].all_symbols # {}
----------------------------------------------------------------------------
(* The rebalance command (cli/groups/trading/orders.py, lines 585-766; the  *)
(* older cli/groups/trading.py, lines 735-959, has the same steps).  The    *)
(* command loads the weights file, infers CASH, checks the total, checks    *)
(* the market clock, fetches the account, the positions and the quotes,     *)
(* calls calculate_rebalancing_orders on what it fetched, puts the sells    *)
(* before the buys, and presents the orders (dry run) or, once confirmed,   *)
(* passes them one by one to submit_order.  What the clients and the user   *)
(* answer is chosen at the step that asks.                                  *)
(*                                                                          *)
(* The weights of the file are Python floats.  A float is modelled with a   *)
(* significand of FloatBits bits over the weight unit 1 / WeightDen: a sum  *)
(* is rounded to the nearest such value, ties to even, so that adding 1.0   *)
(* to a large enough weight gives that weight back.                         *)

FloatBits == 3

\* the spacing of the floats around the magnitude m, from the spacing u up
RECURSIVE UlpOf(_, _)
UlpOf(m, u) == IF m < (2 ^ FloatBits) * u THEN u ELSE UlpOf(m, 2 * u)

\* the float nearest to the integer n, ties to the even significand
FloatRound(n) ==
    LET m == Abs(n)
        u == UlpOf(m, 1)
        q == m \div u
        r == m % u
        k == IF 2 * r < u THEN q
             ELSE IF 2 * r > u THEN q + 1
             ELSE IF q % 2 = 0 THEN q ELSE q + 1
    IN  IF n < 0 THEN -(k * u) ELSE k * u

\* operand of + that is not a number: float + None raises TypeError
TypeError == [t |-> "TypeError", v |-> 0]

\* a + b on Python values
FloatAdd(a, b) ==
    IF a.t \in {"None", "TypeError"} \/ b.t \in {"None", "TypeError"}
    THEN TypeError
    ELSE IF a.t = "NaN" \/ b.t = "NaN" THEN NaN
    ELSE Num(FloatRound(a.v + b.v))

\* a - b on Python values
FloatSub(a, b) == FloatAdd(a, [b EXCEPT !.v = -b.v])

\* the keys of the weights dict in insertion order; CASH, when inferred, is
\* inserted last
KeyOrder == << "AAPL", "MSFT", "CASH" >>

RECURSIVE SumFrom(_, _, _)
SumFrom(d, i, acc) ==
    IF i > Len(KeyOrder) THEN acc
    ELSE IF KeyOrder[i] \in DOMAIN d
         THEN SumFrom(d, i + 1, FloatAdd(acc, d[KeyOrder[i]]))
         ELSE SumFrom(d, i + 1, acc)

\* sum(target_weights.values())
PySum(d) == SumFrom(d, 1, Num(0))

\* target_weights["CASH"] = 1.0 - sum(target_weights.values())
InferCash(d) ==
    [k \in DOMAIN d \cup {"CASH"} |->
        IF k = "CASH" THEN FloatSub(Num(WeightDen), PySum(d)) ELSE d[k]]

\* mutant: the total has no upper bound
TotalAccepted_NoUpperBound(total) ==
    IsNum(total) /\ 99 * WeightDen <= 100 * total.v

\* 0.99 <= total_weight <= 1.01 (false for a NaN)
TotalAccepted(total) ==
    /\ IsNum(total)
    /\ 99 * WeightDen <= 100 * total.v
    /\ 100 * total.v <= 101 * WeightDen

\* a weight so large that the floats around it are more than 1.0 apart
WeightHuge == 2 ^ (FloatBits + 3)

\* what json.load gives: nothing (unreadable), a list, or a dict of weights
WeightsFiles ==
    { [kind |-> "error"], [kind |-> "list"] }
    \cup { [kind |-> "dict",
            d |-> MakeDict([k \in Keys |-> IF k = "AAPL" THEN a
                                           ELSE IF k = "MSFT" THEN m ELSE c])] :
             a \in {Absent, None, NaN, Num(-1), Num(0), Num(MaxWeight),
                    Num(WeightHuge)},
             m \in {Absent, Num(MaxWeight)},
             c \in {Absent, Num(0), Num(MaxWeight)} }

\* the positions client.get_all_positions() may report
AccountPositions ==
    { MakeDict([k \in Keys |-> IF k = "AAPL" THEN a
                               ELSE IF k = "MSFT" THEN m ELSE Absent]) :
        a \in {Absent, Num(MaxQty)}, m \in {Absent, Num(MaxQty)} }

\* the mid prices the data client may report for the symbols syms: a quote
\* can be missing, and a mid price can be 0
Quotes(syms) ==
    { MakeDict([k \in syms |-> IF k = "AAPL" THEN a ELSE m]) :
        a \in {Absent, Num(0), Num(1)}, m \in {Absent, Num(1)} }

CmdInit ==
    /\ cmd_pc = "load"
    /\ weights_file \in WeightsFiles
    /\ dry_run \in BOOLEAN
    /\ force \in BOOLEAN
    /\ yes \in BOOLEAN
    /\ order_type \in {"market", "limit"}
    /\ allow_short \in BOOLEAN
    /\ clock = "unchecked"
    /\ fetched = {}
    /\ sorted_orders = << >>
    /\ confirmed = "unasked"
    /\ submitted = << >>
    /\ message = ""
    /\ current_equity = None
    /\ current_positions = << >>
    /\ target_weights = << >>
    /\ current_prices = << >>
    /\ pc = "start"
    /\ equity_d = 0
    /\ all_symbols = {}
    /\ symbol = ""
    /\ orders = << >>
    /\ result = Pending
    /\ calls = << >>

\* the locals of the calculator and the concurrent calls
calculator == << pc, equity_d, all_symbols, symbol, orders, result, calls >>

\* the command returns (or dies) with the message msg
Stop(at, msg) ==
    /\ cmd_pc' = at
    /\ message' = msg

\* lines 607-617: load the weights file
CmdLoad ==
    /\ cmd_pc = "load"
    /\ IF weights_file.kind = "error"
       THEN Stop("done", "Failed to load weights file") /\ UNCHANGED target_weights
       ELSE IF weights_file.kind # "dict"
       THEN Stop("done", "Invalid weights format") /\ UNCHANGED target_weights
       ELSE /\ target_weights' = weights_file.d
            /\ cmd_pc' = "cash"
            /\ UNCHANGED message
    /\ UNCHANGED << current_equity, current_positions, current_prices,
                    allow_short, calculator, weights_file, dry_run, force, yes,
                    order_type, clock, fetched, sorted_orders, confirmed,
                    submitted >>

\* lines 619-624: CASH, when not in the file, is the rest of the weight
CmdInferCash ==
    /\ cmd_pc = "cash"
    /\ IF "CASH" \in DOMAIN target_weights
       THEN cmd_pc' = "total" /\ UNCHANGED << target_weights, message >>
       ELSE IF PySum(target_weights) = TypeError
       THEN Stop("crashed", "TypeError") /\ UNCHANGED target_weights
       ELSE /\ target_weights' = InferCash(target_weights)
            /\ cmd_pc' = "total"
            /\ UNCHANGED message
    /\ UNCHANGED << current_equity, current_positions, current_prices,
                    allow_short, calculator, weights_file, dry_run, force, yes,
                    order_type, clock, fetched, sorted_orders, confirmed,
                    submitted >>

\* lines 626-632: the total of the weights must be within 0.01 of 1
CmdValidateTotal ==
    /\ cmd_pc = "total"
    /\ LET total_weight == PySum(target_weights)
       IN  IF total_weight = TypeError THEN Stop("crashed", "TypeError")
           ELSE IF ~TotalAccepted(total_weight)
           THEN Stop("done", "Total weight")
           ELSE cmd_pc' = "clock" /\ UNCHANGED message
    /\ UNCHANGED << args, calculator, weights_file, dry_run, force, yes,
                    order_type, clock, fetched, sorted_orders, confirmed,
                    submitted >>

\* if not force and not dry_run: the market clock is asked
ClockAsked(f, dry) == ~f /\ ~dry

\* mutant: only a closed market stops the command
ClockBlocks_ClosedOnly(c) == c = "closed"

\* the answer of the clock stops the command: closed, or not fetched
ClockBlocks(c) == c # "open"

\* lines 634-645: check the market status
CmdCheckMarket ==
    /\ cmd_pc = "clock"
    /\ IF ClockAsked(force, dry_run)
       THEN \E c \in {"open", "closed", "error"} :
               /\ clock' = c
               /\ fetched' = fetched \cup {"get_clock"}
               /\ IF ClockBlocks(c)
                  THEN Stop("done", IF c = "closed" THEN "Market is closed"
                                    ELSE "Failed to check market status")
                  ELSE cmd_pc' = "account" /\ UNCHANGED message
       ELSE cmd_pc' = "account" /\ UNCHANGED << clock, fetched, message >>
    /\ UNCHANGED << args, calculator, weights_file, dry_run, force, yes,
                    order_type, sorted_orders, confirmed, submitted >>

\* lines 647-656: fetch the account and the positions
CmdFetchAccount ==
    /\ cmd_pc = "account"
    /\ \/ /\ fetched' = fetched \cup {"get_account"}
          /\ Stop("done", "Failed to fetch account")
          /\ UNCHANGED << current_equity, current_positions >>
       \/ /\ fetched' = fetched \cup {"get_account", "get_all_positions"}
          /\ current_equity' \in {Num(0), Num(MaxEquity)}
          /\ current_positions' \in AccountPositions
          /\ cmd_pc' = "symbols"
          /\ UNCHANGED message
    /\ UNCHANGED << target_weights, current_prices, allow_short, calculator,
                    weights_file, dry_run, force, yes, order_type, clock,
                    sorted_orders, confirmed, submitted >>

\* lines 658-664: the symbols to price; none, nothing to do
CmdCollectSymbols ==
    /\ cmd_pc = "symbols"
    /\ IF Universe(target_weights, current_positions) = {}
       THEN Stop("done", "No assets to rebalance")
       ELSE cmd_pc' = "prices" /\ UNCHANGED message
    /\ UNCHANGED << args, calculator, weights_file, dry_run, force, yes,
                    order_type, clock, fetched, sorted_orders, confirmed,
                    submitted >>

\* lines 666-699: fetch the quotes; a symbol without one stops the command
CmdFetchPrices ==
    /\ cmd_pc = "prices"
    /\ fetched' = fetched \cup {"get_stock_latest_quote"}
    /\ \/ /\ Stop("done", "Failed to fetch stock prices")
          /\ UNCHANGED current_prices
       \/ /\ current_prices' \in
                Quotes(Universe(target_weights, current_positions))
          /\ IF \E s \in Universe(target_weights, current_positions) :
                   s \notin DOMAIN current_prices'
             THEN Stop("done", "Missing prices")
             ELSE cmd_pc' = "calculate" /\ UNCHANGED message
    /\ UNCHANGED << current_equity, current_positions, target_weights,
                    allow_short, calculator, weights_file, dry_run, force, yes,
                    order_type, clock, sorted_orders, confirmed, submitted >>

\* lines 702-709: the call of calculate_rebalancing_orders, step by step
CmdCalculate ==
    /\ cmd_pc = "calculate"
    /\ Enter \/ Iterate \/ Return

IsSell(o) == o.side = "sell"
IsBuy(o) == o.side = "buy"

\* mutant: the orders are kept as the calculator returned them
SortOrders_AsReturned(os) == os

\* lines 718-721: sell_orders + buy_orders
SortOrders(os) == SelectSeq(os, IsSell) \o SelectSeq(os, IsBuy)

\* mutant: after an error the command goes on with the orders built so far
CmdHandleResult_IgnoresError ==
    /\ cmd_pc = "calculate"
    /\ pc \in {"returned", "raised"}
    /\ IF orders = << >>
       THEN Stop("done", "Portfolio is balanced") /\ UNCHANGED sorted_orders
       ELSE /\ sorted_orders' = SortOrders(orders)
            /\ cmd_pc' = "present"
            /\ UNCHANGED message
    /\ UNCHANGED << args, calculator, weights_file, dry_run, force, yes,
                    order_type, clock, fetched, confirmed, submitted >>

\* lines 710-721: a ValueError is logged and the command returns; no order,
\* nothing to do; otherwise the sells are put first
CmdHandleResult ==
    /\ cmd_pc = "calculate"
    /\ pc \in {"returned", "raised"}
    /\ IF pc = "raised"
       THEN /\ IF result.error.msg = "DivisionByZero"
               THEN Stop("crashed", "DivisionByZero")
               ELSE Stop("done", "Rebalancing error")
            /\ UNCHANGED sorted_orders
       ELSE IF result.orders = << >>
       THEN Stop("done", "Portfolio is balanced") /\ UNCHANGED sorted_orders
       ELSE /\ sorted_orders' = SortOrders(result.orders)
            /\ cmd_pc' = "present"
            /\ UNCHANGED message
    /\ UNCHANGED << args, calculator, weights_file, dry_run, force, yes,
                    order_type, clock, fetched, confirmed, submitted >>

\* mutant: the orders are shown and the command goes on to execute them
CmdDryRun_GoesOn ==
    /\ cmd_pc = "present"
    /\ cmd_pc' = "confirm"
    /\ message' = IF dry_run THEN "Proposed Orders" ELSE message
    /\ UNCHANGED << args, calculator, weights_file, dry_run, force, yes,
                    order_type, clock, fetched, sorted_orders, confirmed,
                    submitted >>

\* lines 723-731: in dry run the orders are shown and the command returns
CmdDryRun ==
    /\ cmd_pc = "present"
    /\ IF dry_run
       THEN Stop("done", "Proposed Orders")
       ELSE cmd_pc' = "confirm" /\ UNCHANGED message
    /\ UNCHANGED << args, calculator, weights_file, dry_run, force, yes,
                    order_type, clock, fetched, sorted_orders, confirmed,
                    submitted >>

\* lines 733-742: without --yes the user is asked
CmdConfirm ==
    /\ cmd_pc = "confirm"
    /\ IF yes
       THEN cmd_pc' = "execute" /\ UNCHANGED << confirmed, message >>
       ELSE \E answer \in BOOLEAN :
               /\ confirmed' = IF answer THEN "yes" ELSE "no"
               /\ IF answer
                  THEN cmd_pc' = "execute" /\ UNCHANGED message
                  ELSE Stop("done", "Cancelled")
    /\ UNCHANGED << args, calculator, weights_file, dry_run, force, yes,
                    order_type, clock, fetched, sorted_orders, submitted >>

\* lines 748-763: the MarketOrderRequest or LimitOrderRequest of an order
Request(o, kind, prices) ==
    [symbol |-> o.symbol, qty |-> o.qty, side |-> o.side, type |-> kind,
     limit_price |-> IF kind = "limit" THEN prices[o.symbol] ELSE None]

\* mutant: a failed submission ends the command
AfterSubmit_StopsOnFailure(ok) == IF ok THEN "execute" ELSE "done"

\* submit_order logs a failed submission and returns: the loop goes on
AfterSubmit(ok) == "execute"

\* lines 744-766 and submit_order (25-37): the next order of sorted_orders
\* is passed to submit_order, which succeeds or fails
CmdSubmit ==
    /\ cmd_pc = "execute"
    /\ Len(submitted) < Len(sorted_orders)
    /\ \E ok \in BOOLEAN :
          /\ submitted' =
                Append(submitted,
                       [req |-> Request(sorted_orders[Len(submitted) + 1],
                                        order_type, current_prices),
                        ok |-> ok])
          /\ cmd_pc' = AfterSubmit(ok)
          /\ message' = IF ok THEN "Order submitted successfully"
                        ELSE "Failed to submit order"
    /\ fetched' = fetched \cup {"submit_order"}
    /\ UNCHANGED << args, calculator, weights_file, dry_run, force, yes,
                    order_type, clock, sorted_orders, confirmed >>

\* line 766: the for loop is over and the command returns
CmdFinish ==
    /\ cmd_pc = "execute"
    /\ Len(submitted) = Len(sorted_orders)
    /\ cmd_pc' = "done"
    /\ UNCHANGED << args, calculator, weights_file, dry_run, force, yes,
                    order_type, clock, fetched, sorted_orders, confirmed,
                    submitted, message >>

CmdNext ==
    \/ CmdLoad \/ CmdInferCash \/ CmdValidateTotal \/ CmdCheckMarket
    \/ CmdFetchAccount \/ CmdCollectSymbols \/ CmdFetchPrices
    \/ CmdCalculate \/ CmdHandleResult
    \/ CmdDryRun \/ CmdConfirm \/ CmdSubmit \/ CmdFinish

SpecCmd == CmdInit /\ [][CmdNext]_vars
----------------------------------------------------------------------------
\* the i-th request passed to submit_order is for the order o
SubmittedFor(i, o) ==
    /\ submitted[i].req.symbol = o.symbol
    /\ submitted[i].req.qty = o.qty
    /\ submitted[i].req.side = o.side

(* C23: in the rebalance command no sell is passed to submit_order after a *)
(* buy, and once a buy has been passed every sell order the calculator     *)
(* returned has been passed before it, whatever the order of the list the  *)
(* calculator returned.                                                    *)
C23_SellsBeforeBuys ==
    /\ \A i, j \in 1..Len(submitted) :
          (i < j) => ~(submitted[i].req.side = "buy"
                         /\ submitted[j].req.side = "sell")
    /\ \A j \in 1..Len(submitted) :
          submitted[j].req.side = "buy"
              => \A k \in 1..Len(result.orders) :
                    result.orders[k].side = "sell"
                        => \E i \in 1..(j - 1) :
                              SubmittedFor(i, result.orders[k])

\* the calculator returned a buy before a sell, and the sell was submitted
\* first
C23_Witness ==
    /\ cmd_pc = "done"
    /\ Len(result.orders) = 2
    /\ result.orders[1].side = "buy" /\ result.orders[2].side = "sell"
    /\ Len(submitted) = 2
    /\ SubmittedFor(1, result.orders[2])
    /\ SubmittedFor(2, result.orders[1])
----------------------------------------------------------------------------
(* C24: when calculate_rebalancing_orders raises, the rebalance command    *)
(* logs the error and returns: nothing is sorted for submission, nothing   *)
(* is passed to submit_order, and nothing is asked of the user, on every   *)
(* path after the error.                                                   *)
C24_CalculationErrorStops ==
    pc = "raised"
        => /\ submitted = << >>
           /\ sorted_orders = << >>
           /\ "submit_order" \notin fetched
           /\ confirmed = "unasked"
           /\ cmd_pc \in {"calculate", "done"}
           /\ cmd_pc = "done" => message = "Rebalancing error"

\* with --execute and --yes, the calculator raised after it had built an
\* order, and the command has returned
C24_Witness ==
    /\ cmd_pc = "done"
    /\ pc = "raised"
    /\ Len(orders) > 0
    /\ ~dry_run /\ yes
----------------------------------------------------------------------------
(* C25: in dry-run mode the rebalance command never reaches the            *)
(* confirmation or the submission loop and passes nothing to submit_order, *)
(* whatever the calculator gave (an error, no order, or orders); when the  *)
(* calculator returned orders, the command ends having shown them all.     *)
C25_DryRunSubmitsNothing ==
    dry_run
        => /\ submitted = << >>
           /\ "submit_order" \notin fetched
           /\ confirmed = "unasked"
           /\ cmd_pc \notin {"confirm", "execute"}
           /\ (cmd_pc = "done" /\ pc = "returned" /\ result.orders # << >>)
                 => /\ message = "Proposed Orders"
                    /\ Len(sorted_orders) = Len(result.orders)

\* a dry run with --yes and --force has shown two orders and returned
C25_Witness ==
    /\ dry_run /\ yes /\ force
    /\ cmd_pc = "done"
    /\ message = "Proposed Orders"
    /\ Len(sorted_orders) = 2
    /\ submitted = << >>
----------------------------------------------------------------------------
(* C26: a symbol with quantity 0 and weight 0 whose price entry is invalid *)
(* (None, NaN or negative) is skipped: handling it raises no error and     *)
(* builds no order.                                                        *)
C26_IrrelevantPriceUnchecked ==
    \A s \in InvolvedSymbols :
        ( /\ NumericHolding(s)
          /\ InputQty(s).v = 0 /\ InputWeight(s).v = 0
          /\ HasPrice(s)
          /\ \/ current_prices[s] \in {None, NaN}
             \/ current_prices[s].v < 0
          /\ JustHandled(s) )
            => /\ pc = "loop"
               /\ \A i \in 1..Len(orders) : orders[i].symbol # s
----------------------------------------------------------------------------
(* C27: the rebalance command passes an order to submit_order only when it *)
(* is not a dry run, the market gate has passed (--force, or the clock     *)
(* said open) and the confirmation gate has passed (--yes, or the user     *)
(* said yes).  Without --force, a closed market or a clock that cannot be  *)
(* fetched ends the command with nothing submitted and no account data     *)
(* fetched; without --yes, a declined confirmation ends it with nothing    *)
(* submitted.                                                              *)
C27_GatesBeforeSubmission ==
    /\ (submitted # << >> \/ cmd_pc = "execute")
          => /\ ~dry_run
             /\ force \/ clock = "open"
             /\ yes \/ confirmed = "yes"
    /\ (~dry_run /\ ~force /\ clock \in {"closed", "error"})
          => /\ submitted = << >>
             /\ cmd_pc = "done"
             /\ "get_account" \notin fetched
    /\ (~yes /\ confirmed = "no")
          => /\ submitted = << >>
             /\ cmd_pc = "done"
             /\ message = "Cancelled"
    /\ (force \/ dry_run) => clock = "unchecked"

\* without --force and --yes, the clock said open, the user said yes, and
\* an order was submitted
C27_Witness ==
    /\ ~dry_run /\ ~force /\ ~yes
    /\ clock = "open"
    /\ confirmed = "yes"
    /\ Len(submitted) > 0
----------------------------------------------------------------------------
\* the command is past the check of the total of a weights dict it could sum
TotalChecked ==
    /\ weights_file.kind = "dict"
    /\ cmd_pc \notin {"none", "load", "cash", "total", "crashed"}

\* the total lies outside [0.99, 1.01] (a NaN lies outside)
OutsideTolerance(total) ==
    \/ ~IsNum(total)
    \/ 100 * total.v < 99 * WeightDen
    \/ 100 * total.v > 101 * WeightDen

\* the command stopped at the check of the total, before any client call
RejectedByTotal ==
    /\ cmd_pc = "done"
    /\ message = "Total weight"
    /\ fetched = {}
    /\ submitted = << >>
    /\ current_equity = None

\* the file has no CASH entry
CashInferred == "CASH" \notin DOMAIN weights_file.d

\* every weight of the file is a number of at most 1.0 in magnitude
OrdinaryWeights ==
    \A k \in DOMAIN weights_file.d :
        IsNum(weights_file.d[k]) /\ Abs(weights_file.d[k].v) <= WeightDen

(* C28 as stated: a total outside [0.99, 1.01] stops the command before    *)
(* any client call; CASH, when absent, is set to 1 - sum(other weights),   *)
(* and a file without CASH is never rejected by the check of the total.    *)
C28_Original ==
    TotalChecked
        => /\ OutsideTolerance(PySum(target_weights)) => RejectedByTotal
           /\ CashInferred
                 => /\ target_weights["CASH"] =
                          FloatSub(Num(WeightDen), PySum(weights_file.d))
                    /\ message # "Total weight"

(* C28 amended: a total outside [0.99, 1.01] stops the command before any  *)
(* client call; CASH, when absent, is set to 1 - sum(other weights).  A    *)
(* file without CASH is not rejected by the check of the total when its    *)
(* weights are numbers of ordinary size (1 - sum is computed without       *)
(* rounding away the 1); it is rejected when a weight is NaN (the total is *)
(* NaN) or so large that the float subtraction loses the 1 (the total      *)
(* comes out as 0).                                                        *)
C28_TotalGate ==
    TotalChecked
        => /\ OutsideTolerance(PySum(target_weights)) => RejectedByTotal
           /\ CashInferred
                 => /\ target_weights["CASH"] =
                          FloatSub(Num(WeightDen), PySum(weights_file.d))
                    /\ OrdinaryWeights => message # "Total weight"
                    /\ (\E k \in DOMAIN weights_file.d :
                           weights_file.d[k] \in {NaN, Num(WeightHuge)})
                          => RejectedByTotal

\* a file without CASH whose weights sum to 2.0 passed the check with CASH
\* at -1.0, and the account was fetched
C28_Witness ==
    /\ TotalChecked /\ CashInferred
    /\ target_weights["CASH"] = Num(-WeightDen)
    /\ "get_account" \in fetched
----------------------------------------------------------------------------
\* the orders of the sequence os name pairwise different symbols, all of
\* them involved
OnePerInvolvedSymbol(os) ==
    /\ \A i, j \in 1..Len(os) : os[i].symbol = os[j].symbol => i = j
    /\ \A i \in 1..Len(os) : os[i].symbol \in InvolvedSymbols

(* C29: the list being built and the list returned hold at most one order  *)
(* per symbol, each for a key of the positions or of the weights other     *)
(* than CASH; a symbol that is a key of the price map only has no order.   *)
C29_OneOrderPerSymbol ==
    /\ OnePerInvolvedSymbol(orders)
    /\ OnePerInvolvedSymbol(result.orders)
    /\ \A s \in DOMAIN current_prices :
          (s \notin DOMAIN current_positions /\ s \notin DOMAIN target_weights)
              => /\ \A i \in 1..Len(orders) : orders[i].symbol # s
                 /\ OrdersFor(s) = {}
                 /\ symbol # s

\* AAPL is priced but neither held nor targeted, and the returned list
\* holds the one order of MSFT
C29_Witness ==
    /\ pc = "returned"
    /\ HasPrice("AAPL") /\ IsNum(current_prices["AAPL"])
    /\ current_prices["AAPL"].v > 0
    /\ "AAPL" \notin InvolvedSymbols
    /\ Len(result.orders) = 1
----------------------------------------------------------------------------
\* the command got as far as its submission loop
Executing == submitted # << >> \/ cmd_pc = "execute"

(* C30: in the submission loop the requests passed to submit_order are the *)
(* orders of the sells-then-buys list, in order and once each; while       *)
(* orders remain the command stays in the loop whether the last            *)
(* submission succeeded or failed, and it ends only when every order of    *)
(* the list has been attempted.                                            *)
C30_FailureDoesNotStop ==
    Executing
        => /\ Len(submitted) <= Len(sorted_orders)
           /\ \A i \in 1..Len(submitted) : SubmittedFor(i, sorted_orders[i])
           /\ Len(submitted) < Len(sorted_orders) => cmd_pc = "execute"
           /\ cmd_pc = "done" => Len(submitted) = Len(sorted_orders)

\* the sell failed, the buy was submitted all the same, and the command
\* has returned
C30_Witness ==
    /\ cmd_pc = "done"
    /\ Len(submitted) = 2
    /\ submitted[1].req.side = "sell" /\ ~submitted[1].ok
    /\ submitted[2].req.side = "buy"

====
